---- MODULE Spec2Model ----
(***************************************************************************)
(* LVGLDisplayDriver (src/LVGLDisplayDriver.h): the adapter that owns or   *)
(* adopts one or two pixel buffers, fills out LittlevGL's lv_disp_buf_t    *)
(* and exposes resolution, back-reference and default rendering hooks.     *)
(*                                                                         *)
(* One adapter object is followed from before its construction to its      *)
(* destruction.  MBED_ASSERT halts the program (pc = "aborted").           *)
(***************************************************************************)
EXTENDS Integers, Sequences, FiniteSets, TLC

\* ---------------------------------------------------------------- bounds
\* Longest buffer a caller hands to the constructor.
MaxLen == 3
\* Largest coordinate passed to set_resolution (the smallest is -1:
\* lv_coord_t is signed).
MaxCoord == 3

\* ------------------------------------------------------- program constants
LV_HOR_RES_MAX == 2
LV_VER_RES_MAX == 1
MBED_CONF_MBED_LVGL_DEFAULT_DISPLAY_BUFFER_SIZE == 2
\* 0: the printf of monitor() is compiled out.
MBED_CONF_MBED_LVGL_ENABLE_FLUSH_MONITORING == 0

\* ------------------------------------------------------------------ values
NULL == "NULL"
\* Storage the caller owns (primary, secondary) and the block new[] returns.
CallerPrimary == "P"
CallerSecondary == "S"
HeapBlock == "H"
Storage == {CallerPrimary, CallerSecondary, HeapBlock}

\* mbed::Span<lv_color_t>: pointer + length.
Span(d, n) == [data |-> d, size |-> n]
\* mbed::Span<lv_color_t, 0>(): the default argument, and a default
\* constructed member.
EmptySpan == Span(NULL, 0)
empty(sp) == sp.size = 0

\* What a caller can pass: the default argument, or a view of its storage
\* of any length (a view of length 0 over real storage is empty too).
PrimaryArgs == {EmptySpan} \cup {Span(CallerPrimary, n) : n \in 0..MaxLen}
SecondaryArgs == {EmptySpan} \cup {Span(CallerSecondary, n) : n \in 0..MaxLen}

Coords == (-1)..MaxCoord
DispObjs == {NULL, "disp1", "disp2"}
\* lv_area_t values and raw pixel buffers handed to the hooks.
Areas == {<<x1, y1, x2, y2>> : x1 \in 0..1, y1 \in {0}, x2 \in 1..2, y2 \in {1}}
PixBufs == {<<0, 0>>, <<255, 0>>, <<255, 255>>}
Colors == {0, 1}

Fields == {"primary_display_buffer", "secondary_display_buffer", "hor_res",
           "ver_res", "lv_buf", "user_provided_display_buffer", "lv_disp_obj"}

VARIABLES
  pc,                            \* "none", "live", "aborted", "destroyed"
  primary_display_buffer,
  secondary_display_buffer,
  hor_res,
  ver_res,
  lv_buf,                        \* lv_disp_buf_t: [buf1, buf2, size]
  user_provided_display_buffer,
  lv_disp_obj,
  written,                       \* the fields assigned so far
  allocated,                     \* blocks obtained with new[]
  freed,                         \* per block, the number of delete[] on it
  given,                         \* the constructor's arguments
  disp_obj_set,                  \* set_lv_disp_obj has been called
  stdout_written,                \* monitor() has printed
  call                           \* the last call: op, args, ret, out

adapter == <<primary_display_buffer, secondary_display_buffer, hor_res, ver_res,
             lv_buf, user_provided_display_buffer, lv_disp_obj>>
vars == <<pc, primary_display_buffer, secondary_display_buffer, hor_res, ver_res,
          lv_buf, user_provided_display_buffer, lv_disp_obj, written, allocated,
          freed, given, disp_obj_set, stdout_written, call>>

Call(op, args, ret, out) == [op |-> op, args |-> args, ret |-> ret, out |-> out]
None == "-"

\* Before construction.  The spans are default constructed (empty); the
\* other fields hold indeterminate values until `written` names them, and
\* no formula reads a field that is not in `written`.
Init ==
  /\ pc = "none"
  /\ primary_display_buffer = EmptySpan
  /\ secondary_display_buffer = EmptySpan
  /\ hor_res = 0
  /\ ver_res = 0
  /\ lv_buf = [buf1 |-> NULL, buf2 |-> NULL, size |-> 0]
  /\ user_provided_display_buffer = FALSE
  /\ lv_disp_obj = NULL
  /\ written = {}
  /\ allocated = {}
  /\ freed = [b \in Storage |-> 0]
  /\ given = <<EmptySpan, EmptySpan>>
  /\ disp_obj_set = FALSE
  /\ stdout_written = FALSE
  /\ call = Call(None, <<>>, None, None)

\* ------------------------------------------------------------ construction
\* Variant: the view is one element shorter than the block.
AllocatedSpan_Short == Span(HeapBlock, MBED_CONF_MBED_LVGL_DEFAULT_DISPLAY_BUFFER_SIZE - 1)

\* new lv_color_t[DEFAULT_DISPLAY_BUFFER_SIZE] wrapped in a Span.
AllocatedSpan == Span(HeapBlock, MBED_CONF_MBED_LVGL_DEFAULT_DISPLAY_BUFFER_SIZE)

\* Variant: a shorter secondary buffer is let through.
SecondaryAssert_AtMost(p, s) == empty(s) \/ s.size <= p.size

\* The condition of the constructor's MBED_ASSERT.
SecondaryAssert(p, s) == empty(s) \/ s.size = p.size

\* initialize_display_buffers: lv_disp_buf_init(&lv_buf, primary.data(),
\* secondary.data(), primary.size()).
initialize_display_buffers(p, s) == [buf1 |-> p.data, buf2 |-> s.data, size |-> p.size]

\* Variant: the MBED_ASSERT sits below the assignment of the secondary view.
LVGLDisplayDriver_AssertLate(p, s) ==
  /\ pc = "none"
  /\ given' = <<p, s>>
  /\ call' = Call("LVGLDisplayDriver", <<p, s>>, None, None)
  /\ hor_res' = LV_HOR_RES_MAX
  /\ ver_res' = LV_VER_RES_MAX
  /\ lv_disp_obj' = NULL
  /\ UNCHANGED <<freed, disp_obj_set, stdout_written>>
  /\ user_provided_display_buffer' = ~empty(p)
  /\ allocated' = IF empty(p) THEN allocated \cup {AllocatedSpan.data} ELSE allocated
  /\ primary_display_buffer' = IF empty(p) THEN AllocatedSpan ELSE p
  /\ secondary_display_buffer' = s
  /\ IF empty(p) \/ SecondaryAssert(p, s)
       THEN /\ lv_buf' = initialize_display_buffers(primary_display_buffer', s)
            /\ written' = Fields
            /\ pc' = "live"
       ELSE /\ UNCHANGED lv_buf
            /\ written' = Fields \ {"lv_buf"}
            /\ pc' = "aborted"

\* The constructor: member initializers, then the body.  When the
\* MBED_ASSERT fires, the member initializers, the ownership flag and the
\* primary view have been assigned; the secondary view and lv_buf have not.
LVGLDisplayDriver(p, s) ==
  /\ pc = "none"
  /\ given' = <<p, s>>
  /\ call' = Call("LVGLDisplayDriver", <<p, s>>, None, None)
  /\ hor_res' = LV_HOR_RES_MAX
  /\ ver_res' = LV_VER_RES_MAX
  /\ lv_disp_obj' = NULL
  /\ UNCHANGED <<freed, disp_obj_set, stdout_written>>
  /\ IF empty(p)
       THEN /\ user_provided_display_buffer' = FALSE
            /\ allocated' = allocated \cup {AllocatedSpan.data}
            /\ primary_display_buffer' = AllocatedSpan
            /\ secondary_display_buffer' = s
            /\ lv_buf' = initialize_display_buffers(AllocatedSpan, s)
            /\ written' = Fields
            /\ pc' = "live"
       ELSE /\ user_provided_display_buffer' = TRUE
            /\ primary_display_buffer' = p
            /\ UNCHANGED allocated
            /\ IF SecondaryAssert(p, s)
                 THEN /\ secondary_display_buffer' = s
                      /\ lv_buf' = initialize_display_buffers(p, s)
                      /\ written' = Fields
                      /\ pc' = "live"
                 ELSE /\ UNCHANGED <<secondary_display_buffer, lv_buf>>
                      /\ written' = {"hor_res", "ver_res", "lv_disp_obj",
                                      "user_provided_display_buffer",
                                      "primary_display_buffer"}
                      /\ pc' = "aborted"

\* ------------------------------------------------------------- destruction
\* delete[] ptr
Delete(ptr) == IF ptr = NULL THEN freed ELSE [freed EXCEPT ![ptr] = @ + 1]

\* Variant: the destructor frees the primary buffer whoever owns it.
Destructor_FreesAlways ==
  /\ pc = "live"
  /\ pc' = "destroyed"
  /\ call' = Call("~LVGLDisplayDriver", <<>>, None, None)
  /\ freed' = Delete(primary_display_buffer.data)
  /\ UNCHANGED <<adapter, written, allocated, given, disp_obj_set, stdout_written>>

Destructor ==
  /\ pc = "live"
  /\ pc' = "destroyed"
  /\ call' = Call("~LVGLDisplayDriver", <<>>, None, None)
  /\ freed' = IF ~user_provided_display_buffer
                THEN Delete(primary_display_buffer.data)
                ELSE freed
  /\ UNCHANGED <<adapter, written, allocated, given, disp_obj_set, stdout_written>>

\* -------------------------------------------------------------- resolution
\* Variant: each dimension is stored right after its own assertion.
set_resolution_Interleaved(new_hor_res, new_ver_res) ==
  /\ pc = "live"
  /\ call' = Call("set_resolution", <<new_hor_res, new_ver_res>>, None, None)
  /\ IF new_hor_res <= LV_HOR_RES_MAX
       THEN /\ hor_res' = new_hor_res
            /\ IF new_ver_res <= LV_VER_RES_MAX
                 THEN ver_res' = new_ver_res /\ pc' = "live"
                 ELSE UNCHANGED ver_res /\ pc' = "aborted"
       ELSE /\ UNCHANGED <<hor_res, ver_res>>
            /\ pc' = "aborted"
  /\ UNCHANGED <<primary_display_buffer, secondary_display_buffer, lv_buf,
                 user_provided_display_buffer, lv_disp_obj, written, allocated,
                 freed, given, disp_obj_set, stdout_written>>

set_resolution(new_hor_res, new_ver_res) ==
  /\ pc = "live"
  /\ call' = Call("set_resolution", <<new_hor_res, new_ver_res>>, None, None)
  /\ IF new_hor_res <= LV_HOR_RES_MAX /\ new_ver_res <= LV_VER_RES_MAX
       THEN /\ hor_res' = new_hor_res
            /\ ver_res' = new_ver_res
            /\ pc' = "live"
       ELSE /\ UNCHANGED <<hor_res, ver_res>>
            /\ pc' = "aborted"
  /\ UNCHANGED <<primary_display_buffer, secondary_display_buffer, lv_buf,
                 user_provided_display_buffer, lv_disp_obj, written, allocated,
                 freed, given, disp_obj_set, stdout_written>>

\* Variant: the two out-parameters are filled the wrong way round.
get_resolution_Swapped ==
  /\ pc = "live"
  /\ call' = Call("get_resolution", <<>>, <<ver_res, hor_res>>, None)
  /\ UNCHANGED <<pc, adapter, written, allocated, freed, given, disp_obj_set,
                 stdout_written>>

get_resolution ==
  /\ pc = "live"
  /\ call' = Call("get_resolution", <<>>, <<hor_res, ver_res>>, None)
  /\ UNCHANGED <<pc, adapter, written, allocated, freed, given, disp_obj_set,
                 stdout_written>>

\* ---------------------------------------------------------- back-reference
\* Variant: a null handle is not stored.
set_lv_disp_obj_SkipsNull(disp_obj) ==
  /\ pc = "live"
  /\ call' = Call("set_lv_disp_obj", <<disp_obj>>, None, None)
  /\ lv_disp_obj' = IF disp_obj = NULL THEN lv_disp_obj ELSE disp_obj
  /\ disp_obj_set' = TRUE
  /\ UNCHANGED <<pc, primary_display_buffer, secondary_display_buffer, hor_res,
                 ver_res, lv_buf, user_provided_display_buffer, written,
                 allocated, freed, given, stdout_written>>

set_lv_disp_obj(disp_obj) ==
  /\ pc = "live"
  /\ call' = Call("set_lv_disp_obj", <<disp_obj>>, None, None)
  /\ lv_disp_obj' = disp_obj
  /\ disp_obj_set' = TRUE
  /\ UNCHANGED <<pc, primary_display_buffer, secondary_display_buffer, hor_res,
                 ver_res, lv_buf, user_provided_display_buffer, written,
                 allocated, freed, given, stdout_written>>

get_lv_disp_obj ==
  /\ pc = "live"
  /\ call' = Call("get_lv_disp_obj", <<>>, lv_disp_obj, None)
  /\ UNCHANGED <<pc, adapter, written, allocated, freed, given, disp_obj_set,
                 stdout_written>>

get_lv_buf ==
  /\ pc = "live"
  /\ call' = Call("get_lv_buf", <<>>, lv_buf, None)
  /\ UNCHANGED <<pc, adapter, written, allocated, freed, given, disp_obj_set,
                 stdout_written>>

\* ------------------------------------------------------------ default hooks
\* `out` is the content of the area or buffer the hook was handed, as the
\* hook leaves it.
has_rounder ==
  /\ pc = "live"
  /\ call' = Call("has_rounder", <<>>, FALSE, None)
  /\ UNCHANGED <<pc, adapter, written, allocated, freed, given, disp_obj_set,
                 stdout_written>>

\* Variant: the area is extended to even coordinates.
round_lv_area_Rounds(area) ==
  /\ pc = "live"
  /\ call' = Call("round_lv_area", <<area>>, None,
                  <<area[1] - (area[1] % 2), area[2], area[3] + (area[3] % 2), area[4]>>)
  /\ UNCHANGED <<pc, adapter, written, allocated, freed, given, disp_obj_set,
                 stdout_written>>

round_lv_area(area) ==
  /\ pc = "live"
  /\ call' = Call("round_lv_area", <<area>>, None, area)
  /\ UNCHANGED <<pc, adapter, written, allocated, freed, given, disp_obj_set,
                 stdout_written>>

has_pix_write_func ==
  /\ pc = "live"
  /\ call' = Call("has_pix_write_func", <<>>, FALSE, None)
  /\ UNCHANGED <<pc, adapter, written, allocated, freed, given, disp_obj_set,
                 stdout_written>>

set_pixel(buf, buf_w, x, y, color, opa) ==
  /\ pc = "live"
  /\ call' = Call("set_pixel", <<buf, buf_w, x, y, color, opa>>, None, buf)
  /\ UNCHANGED <<pc, adapter, written, allocated, freed, given, disp_obj_set,
                 stdout_written>>

monitor(time, px) ==
  /\ pc = "live"
  /\ call' = Call("monitor", <<time, px>>, None, None)
  /\ stdout_written' = (stdout_written \/ MBED_CONF_MBED_LVGL_ENABLE_FLUSH_MONITORING # 0)
  /\ UNCHANGED <<pc, adapter, written, allocated, freed, given, disp_obj_set>>

\* ------------------------------------------------------------ specification
Next ==
  \/ \E p \in PrimaryArgs, s \in SecondaryArgs : LVGLDisplayDriver(p, s)
  \/ Destructor
  \/ \E h \in Coords, v \in Coords : set_resolution(h, v)
  \/ get_resolution
  \/ \E d \in DispObjs : set_lv_disp_obj(d)
  \/ get_lv_disp_obj
  \/ get_lv_buf
  \/ has_rounder
  \/ \E a \in Areas : round_lv_area(a)
  \/ has_pix_write_func
  \/ \E b \in PixBufs, x \in 0..1, c \in Colors : set_pixel(b, 2, x, 0, c, 255)
  \/ \E t \in 0..1, px \in 0..1 : monitor(t, px)

Spec == Init /\ [][Next]_vars

\* ================================================================== claims
BothGivenUnequal ==
  /\ ~empty(given[1])
  /\ ~empty(given[2])
  /\ given[1].size # given[2].size

\* C1: a construction given a non-empty primary and a non-empty secondary
\* buffer of different lengths fails its assertion, and no adapter is ever
\* produced from it (the program stays halted in the constructor).
C1_UnequalBuffersFailFast ==
  (pc # "none" /\ BothGivenUnequal)
    => (pc = "aborted" /\ call.op = "LVGLDisplayDriver")

C1_Witness == pc = "aborted" /\ BothGivenUnequal /\ call.op = "LVGLDisplayDriver"

\* C2: in every state of a successfully constructed adapter, whatever the
\* constructor was given, two non-empty buffers have equal length.
C2_BuffersEqualLength ==
  (pc \in {"live", "destroyed"}
     /\ ~empty(primary_display_buffer) /\ ~empty(secondary_display_buffer))
    => primary_display_buffer.size = secondary_display_buffer.size

\* C3: the adapter frees the primary buffer on destruction if and only if
\* it allocated it: a block it allocated is freed exactly once, by the
\* destructor, and the caller's storage is never freed, whatever was called
\* between construction and destruction.
C3_FreesOnlyOwnBuffer ==
  \A b \in Storage :
    freed[b] = IF pc = "destroyed" /\ b \in allocated THEN 1 ELSE 0

C3_Witness ==
  /\ pc = "destroyed"
  /\ freed[HeapBlock] = 1
  /\ disp_obj_set
  /\ hor_res # LV_HOR_RES_MAX

InMax(h, v) == h <= LV_HOR_RES_MAX /\ v <= LV_VER_RES_MAX

\* C4: get_resolution right after set_resolution(h, v) with h and v within
\* the maxima returns exactly (h, v); set_resolution with h or v above its
\* maximum fails its assertion and stores neither value.
C4_SetGetResolution ==
  [][/\ (call.op = "set_resolution" /\ call'.op = "get_resolution")
          => call'.ret = call.args
     /\ call'.op = "set_resolution"
          => IF InMax(call'.args[1], call'.args[2])
               THEN pc' = "live" /\ <<hor_res', ver_res'>> = call'.args
               ELSE pc' = "aborted" /\ UNCHANGED <<hor_res, ver_res>>]_vars

C4_Witness ==
  /\ call.op = "get_resolution"
  /\ call.ret = <<-1, 0>>

\* C5: from construction onward hor_res <= LV_HOR_RES_MAX and
\* ver_res <= LV_VER_RES_MAX, and a set_resolution call that fails its
\* assertion leaves both dimensions as they were.
C5_ResolutionWithinMax ==
  /\ [](pc # "none" => InMax(hor_res, ver_res))
  /\ [][(call'.op = "set_resolution" /\ pc' = "aborted")
          => UNCHANGED <<hor_res, ver_res>>]_vars

C5_Witness ==
  /\ pc = "aborted"
  /\ call.op = "set_resolution"
  /\ call.args[1] <= LV_HOR_RES_MAX
  /\ call.args[1] # hor_res
  /\ call.args[2] > LV_VER_RES_MAX

AssertFiredInConstructor == pc = "aborted" /\ call.op = "LVGLDisplayDriver"

\* C6 (as stated): when the constructor's assertion fires, no field of the
\* adapter has been written.
C6_NothingWrittenAtAssert == AssertFiredInConstructor => written = {}

\* C6 (amended): when the constructor's assertion fires, the resolution,
\* the back-reference, the ownership flag and the primary view have been
\* written (the primary view is the caller's, marked caller-owned); the
\* secondary view and the descriptor have not, and nothing was allocated.
C6_WrittenAtAssert ==
  AssertFiredInConstructor =>
    /\ written = {"hor_res", "ver_res", "lv_disp_obj",
                  "user_provided_display_buffer", "primary_display_buffer"}
    /\ primary_display_buffer = given[1]
    /\ user_provided_display_buffer
    /\ secondary_display_buffer = EmptySpan
    /\ allocated = {}

C6_Witness == AssertFiredInConstructor /\ given[1].size = 2 /\ given[2].size = 1

\* C7: constructed with an empty primary buffer, the adapter allocates one
\* of the configured default length and records itself as its owner;
\* constructed with no arguments, its secondary buffer is empty; constructed
\* with a non-empty primary buffer, it allocates nothing and its primary
\* view is the caller's.
C7_AllocateOrAdopt ==
  pc # "none" =>
    /\ empty(given[1]) =>
         /\ primary_display_buffer.size = MBED_CONF_MBED_LVGL_DEFAULT_DISPLAY_BUFFER_SIZE
         /\ primary_display_buffer.data \in allocated
         /\ ~user_provided_display_buffer
    /\ given = <<EmptySpan, EmptySpan>> => empty(secondary_display_buffer)
    /\ ~empty(given[1]) =>
         /\ allocated = {}
         /\ primary_display_buffer = given[1]

C7_Witness ==
  /\ pc = "live"
  /\ given = <<EmptySpan, EmptySpan>>
  /\ primary_display_buffer.data = HeapBlock

NullUntilSet == [](pc # "none" /\ ~disp_obj_set => lv_disp_obj = NULL)
GetReturnsStored == [][call'.op = "get_lv_disp_obj" => call'.ret = lv_disp_obj']_vars

\* C8 (as stated): the back-reference is null until set_lv_disp_obj is
\* called, get_lv_disp_obj returns the stored value, and once
\* set_lv_disp_obj has been called no later operation changes it.
C8_SetExactlyOnce ==
  /\ NullUntilSet
  /\ GetReturnsStored
  /\ [][disp_obj_set => lv_disp_obj' = lv_disp_obj]_vars

\* C8 (amended): the back-reference is null until set_lv_disp_obj is
\* called, get_lv_disp_obj returns the stored value, every set_lv_disp_obj
\* call (the first or a later one) stores its argument, and no other
\* operation changes the back-reference.
C8_OnlySetterChanges ==
  /\ NullUntilSet
  /\ GetReturnsStored
  /\ [][pc # "none" =>
          IF call'.op = "set_lv_disp_obj"
            THEN lv_disp_obj' = call'.args[1]
            ELSE lv_disp_obj' = lv_disp_obj]_vars

C8_Witness ==
  /\ call.op = "get_lv_disp_obj"
  /\ call.ret = "disp2"
  /\ disp_obj_set

\* C9: the default has_rounder and has_pix_write_func return false, and the
\* default round_lv_area, set_pixel and monitor (monitoring disabled) leave
\* the adapter's state and the area or buffer they were handed unchanged.
C9_DefaultHooksNoEffect ==
  [][/\ call'.op \in {"has_rounder", "has_pix_write_func"}
          => call'.ret = FALSE
     /\ call'.op \in {"round_lv_area", "set_pixel"}
          => call'.out = call'.args[1]
     /\ call'.op \in {"has_rounder", "has_pix_write_func", "round_lv_area",
                      "set_pixel", "monitor"}
          => UNCHANGED <<adapter, pc, written, allocated, freed, stdout_written>>]_vars

C9_Witness ==
  /\ call.op = "round_lv_area"
  /\ call.args[1] = <<1, 0, 1, 1>>
  /\ hor_res = 0

\* C10: after a successful construction the descriptor's first buffer is
\* the primary buffer, its second the secondary buffer and its length the
\* primary buffer's length, so that its length never exceeds the length of
\* a non-empty buffer it refers to.
C10_DescriptorMatchesBuffers ==
  pc = "live" =>
    /\ lv_buf.buf1 = primary_display_buffer.data
    /\ lv_buf.buf2 = secondary_display_buffer.data
    /\ lv_buf.size = primary_display_buffer.size
    /\ \A sp \in {primary_display_buffer, secondary_display_buffer} :
         ~empty(sp) => lv_buf.size <= sp.size
====
